---------------------------- MODULE Spec2Model ----------------------------
(***************************************************************************)
(* A model of the brainfck pipeline: tokenizer.rs (tokenize), parser.rs    *)
(* (parse), vm.rs (compile, resolve_jumps, VM::eval, VM::eval_one) and the *)
(* driver of lib.rs (repl).                                                *)
(*                                                                         *)
(* Indices are 0-based as in the source; a TLA+ sequence s holds the       *)
(* element of index i at s[i + 1].                                         *)
(*                                                                         *)
(* Rust's integer arithmetic depends on the build: with overflow checks    *)
(* (the debug profile) an overflowing +, - or abs() panics; without them   *)
(* (the release profile) it wraps.  The variable build holds the profile;  *)
(* both are initial states.                                                *)
(***************************************************************************)
EXTENDS Integers, Sequences, FiniteSets, TLC

VARIABLES
    mode,       \* "repl": lib.rs drives the pipeline; "api": eval_one is called directly
    build,      \* "debug" (overflow checks) or "release" (wrapping)
    pc,         \* position of the driver
    src,        \* the program text, a sequence of characters
    tokens,     \* result of tokenize
    parsed,     \* result of parse
    compiled,   \* result of compile
    i_ptr,      \* VM.i_ptr
    mem_ptr,    \* VM.mem_ptr
    memory,     \* VM.memory, the cells that are not zero
    output,     \* the bytes written to stdout by Instruction::Print
    last,       \* the latest call of eval_one for this program: its instruction and its result
    calls,      \* number of direct eval_one calls made (mode "api")
    reads,      \* number of programs the repl loop has read (mode "repl")
    done_len    \* length of the stream of the latest eval that returned, -1 if none

vars == <<mode, build, pc, src, tokens, parsed, compiled,
          i_ptr, mem_ptr, memory, output, last, calls, reads, done_len>>

---------------------------------------------------------------------------
(* Bounds of the model *)

\* longest program text drawn over the whole alphabet
MaxLen == 3
\* the repl loop reads at most MaxPrograms programs, the later ones of at
\* most MaxLater characters
MaxPrograms == 2
MaxLater == 2
\* longest program text drawn over the two bracket characters
MaxBr == 6
\* longest program text drawn over the arithmetic, movement and output characters
MaxRun == 5
\* most direct eval_one calls in mode "api"
MaxCalls == 3
\* most bytes of output before the run is cut off
MaxOut == 4

---------------------------------------------------------------------------
(* Machine integers *)

MEMORY_CELLS == 30000
U8_MAX == 255
I8_MAX == 127
I32_MAX == 2147483647
I32_MIN == (-2147483647) - 1

Builds == {"debug", "release"}

\* u8 `depth += 1`
U8AddOne(x, b) ==
    IF x + 1 <= U8_MAX THEN [panic |-> FALSE, v |-> x + 1]
    ELSE IF b = "debug" THEN [panic |-> TRUE, v |-> x]
    ELSE [panic |-> FALSE, v |-> (x + 1) % (U8_MAX + 1)]

\* u8 `depth -= 1`
U8SubOne(x, b) ==
    IF x - 1 >= 0 THEN [panic |-> FALSE, v |-> x - 1]
    ELSE IF b = "debug" THEN [panic |-> TRUE, v |-> x]
    ELSE [panic |-> FALSE, v |-> (x - 1) % (U8_MAX + 1)]

\* i32::abs: i32::MIN has no absolute value in i32
I32Abs(n, b) ==
    IF n = I32_MIN
    THEN IF b = "debug" THEN [panic |-> TRUE, v |-> n] ELSE [panic |-> FALSE, v |-> n]
    ELSE [panic |-> FALSE, v |-> IF n < 0 THEN -n ELSE n]

\* `n as i8`: keeps the low 8 bits, read as two's complement
AsI8(n) == ((n + (I8_MAX + 1)) % (U8_MAX + 1)) - (I8_MAX + 1)

\* the addition without its clamp to the range of u8
SaturatingAddSigned_Unclamped(c, k) == c + k

\* u8::saturating_add_signed
SaturatingAddSigned(c, k) ==
    IF c + k > U8_MAX THEN U8_MAX ELSE IF c + k < 0 THEN 0 ELSE c + k

\* usize::checked_sub(p, a as usize) for an i32 a: a negative a becomes a
\* usize of at least 2^31, more than any cell pointer.  -1 stands for None.
CheckedSubAsUsize(p, a) == IF a < 0 \/ a > p THEN -1 ELSE p - a

\* usize::checked_add(p, n as usize) for 0 < n <= i32::MAX and p < MEMORY_CELLS:
\* at most 2^31 + 29998, inside usize of every pointer width of 32 bits or more,
\* but it is only compared with MEMORY_CELLS; MEMORY_CELLS stands for any
\* such sum that the model's integers cannot hold.
CheckedAddAsUsize(p, n) == IF n > I32_MAX - p THEN MEMORY_CELLS ELSE p + n

---------------------------------------------------------------------------
(* tokenizer.rs *)

Chars == {"<", ">", "+", "-", ".", ",", "[", "]", "x"}

\* the match of tokenize without its arm for ','
TokenOf_NoRead(c) ==
    CASE c = "<" -> "MovePointerLeft"
      [] c = ">" -> "MovePointerRight"
      [] c = "+" -> "Increment"
      [] c = "-" -> "Decrement"
      [] c = "." -> "Print"
      [] c = "[" -> "LeftBracket"
      [] c = "]" -> "RightBracket"
      [] OTHER -> "None"

TokenOf(c) ==
    CASE c = "<" -> "MovePointerLeft"
      [] c = ">" -> "MovePointerRight"
      [] c = "+" -> "Increment"
      [] c = "-" -> "Decrement"
      [] c = "." -> "Print"
      [] c = "," -> "Read"
      [] c = "[" -> "LeftBracket"
      [] c = "]" -> "RightBracket"
      [] OTHER -> "None"

\* s.chars().filter_map(..).collect()
tokenize(s) ==
    SelectSeq([k \in 1..Len(s) |-> TokenOf(s[k])], LAMBDA t : t # "None")

---------------------------------------------------------------------------
(* parser.rs *)

Statement(kind, n) == [kind |-> kind, n |-> n]

\* One iteration of the loop of parse.  st = [depth, instructions, panic].
ParseToken(st, token, b) ==
    LET push(s) == [st EXCEPT !.instructions = Append(@, s)] IN
    CASE token = "MovePointerLeft"  -> push(Statement("ShiftLeft", 0))
      [] token = "MovePointerRight" -> push(Statement("ShiftRight", 0))
      [] token = "Increment"        -> push(Statement("Increment", 0))
      [] token = "Decrement"        -> push(Statement("Decrement", 0))
      [] token = "Print"            -> push(Statement("Print", 0))
      [] token = "Read"             -> push(Statement("Read", 0))
      [] token = "LeftBracket" ->
            LET inc == U8AddOne(st.depth, b) IN
            [depth |-> inc.v,
             instructions |-> Append(st.instructions, Statement("JumpIfZero", st.depth)),
             panic |-> inc.panic]
      [] token = "RightBracket" ->
            LET dec == U8SubOne(st.depth, b) IN
            IF dec.panic THEN [st EXCEPT !.panic = TRUE]
            ELSE [depth |-> dec.v,
                  instructions |-> Append(st.instructions, Statement("JumpIfNotZero", dec.v)),
                  panic |-> FALSE]

\* `for token in tokens.iter()` over the tokens of index lo-1 .. hi-1, from
\* the state st; a panic ends the loop.  The range is split in two halves to
\* keep the evaluation shallow.
RECURSIVE ParseLoop(_, _, _, _, _)
ParseLoop(toks, lo, hi, st, b) ==
    IF lo > hi \/ st.panic THEN st
    ELSE IF lo = hi THEN ParseToken(st, toks[lo], b)
    ELSE LET mid == (lo + hi) \div 2
             left == ParseLoop(toks, lo, mid, st, b)
         IN  ParseLoop(toks, mid + 1, hi, left, b)

\* parse: Ok(instructions), Err(UnbalancedBrackets), or a panic of the
\* overflow check on depth.
parse(toks, b) ==
    LET st == ParseLoop(toks, 1, Len(toks),
                        [depth |-> 0, instructions |-> <<>>, panic |-> FALSE], b) IN
    IF st.panic THEN [tag |-> "Panic", val |-> <<>>, err |-> "overflow"]
    ELSE IF st.depth # 0 THEN [tag |-> "Err", val |-> <<>>, err |-> "UnbalancedBrackets"]
    ELSE [tag |-> "Ok", val |-> st.instructions, err |-> "none"]

---------------------------------------------------------------------------
(* vm.rs: compile *)

Instruction(op, n) == [op |-> op, n |-> n]

\* flush_and_reset without the tests `*n != 0`: a run that nets to zero is
\* emitted as an instruction of delta 0
flush_and_reset_KeepsZero(c) ==
    [c EXCEPT
        !.bytecode =
            IF c.state.kind \in {"Increment", "Shift"}
                THEN Append(@, Instruction(c.state.kind, c.state.n))
            ELSE @,
        !.state = [kind |-> "Initial", n |-> 0]]

\* The closure flush_and_reset.  c = [state, bytecode, panic],
\* state = [kind, n] with kind in Initial, Increment, Shift.
flush_and_reset(c) ==
    [c EXCEPT
        !.bytecode =
            IF c.state.kind = "Increment" /\ c.state.n # 0
                THEN Append(@, Instruction("Increment", c.state.n))
            ELSE IF c.state.kind = "Shift" /\ c.state.n # 0
                THEN Append(@, Instruction("Shift", c.state.n))
            ELSE @,
        !.state = [kind |-> "Initial", n |-> 0]]

\* One iteration of the loop of compile.
CompileStatement(c, s) ==
    CASE s.kind = "Increment" /\ c.state.kind = "Increment" ->
            [c EXCEPT !.state.n = @ + 1]
      [] s.kind = "Decrement" /\ c.state.kind = "Increment" ->
            [c EXCEPT !.state.n = @ - 1]
      [] s.kind = "ShiftRight" /\ c.state.kind = "Shift" ->
            [c EXCEPT !.state.n = @ + 1]
      [] s.kind = "ShiftLeft" /\ c.state.kind = "Shift" ->
            [c EXCEPT !.state.n = @ - 1]
      [] OTHER ->
            LET f == flush_and_reset(c) IN
            CASE s.kind = "ShiftRight" -> [f EXCEPT !.state = [kind |-> "Shift", n |-> 1]]
              [] s.kind = "ShiftLeft"  -> [f EXCEPT !.state = [kind |-> "Shift", n |-> -1]]
              [] s.kind = "Increment"  -> [f EXCEPT !.state = [kind |-> "Increment", n |-> 1]]
              [] s.kind = "Decrement"  -> [f EXCEPT !.state = [kind |-> "Increment", n |-> -1]]
              [] s.kind = "Print" ->
                    [f EXCEPT !.bytecode = Append(@, Instruction("Print", 0))]
              [] s.kind = "JumpIfZero" ->
                    [f EXCEPT !.bytecode = Append(@, Instruction("JumpIfZero", s.n))]
              [] s.kind = "JumpIfNotZero" ->
                    [f EXCEPT !.bytecode = Append(@, Instruction("JumpIfNotZero", s.n))]
              [] OTHER -> [f EXCEPT !.panic = "todo"]

\* `for instruction in instructions` over the statements of index lo-1 .. hi-1
RECURSIVE CompileLoop(_, _, _, _)
CompileLoop(stmts, lo, hi, c) ==
    IF lo > hi \/ c.panic # "none" THEN c
    ELSE IF lo = hi THEN CompileStatement(c, stmts[lo])
    ELSE LET mid == (lo + hi) \div 2
             left == CompileLoop(stmts, lo, mid, c)
         IN  CompileLoop(stmts, mid + 1, hi, left)

\* the search giving the index in the whole stream, not the offset from i
Position_FromStart(bytecode, i, n) ==
    LET found == {k \in i..(Len(bytecode) - 1) :
                     bytecode[k + 1] = Instruction("JumpIfNotZero", n)}
    IN  IF found = {} THEN -1
        ELSE CHOOSE k \in found : \A k2 \in found : k <= k2

\* after.iter().position(|x| x == &JumpIfNotZero(n)) with after = bytecode[i..]:
\* the offset of the first such instruction at index i or later, -1 for None.
Position(bytecode, i, n) ==
    LET found == {k \in i..(Len(bytecode) - 1) :
                     bytecode[k + 1] = Instruction("JumpIfNotZero", n)}
    IN  IF found = {} THEN -1
        ELSE (CHOOSE k \in found : \A k2 \in found : k <= k2) - i

\* One iteration of the loop of resolve_jumps.  r = [bytecode, panic].
ResolveAt(r, i) ==
    IF r.bytecode[i + 1].op = "JumpIfZero"
    THEN LET n == r.bytecode[i + 1].n
             offset == Position(r.bytecode, i, n)
         IN  IF offset = -1 THEN [r EXCEPT !.panic = "expect"]
             ELSE [r EXCEPT
                     !.bytecode = [[@ EXCEPT ![i + 1] = Instruction("JumpIfZero", offset + i)]
                                      EXCEPT ![offset + i + 1] = Instruction("JumpIfNotZero", i)]]
    ELSE r

\* `for i in 0..bytecode.len()` over lo .. hi
RECURSIVE ResolveLoop(_, _, _)
ResolveLoop(r, lo, hi) ==
    IF lo > hi \/ r.panic # "none" THEN r
    ELSE IF lo = hi THEN ResolveAt(r, lo)
    ELSE LET mid == (lo + hi) \div 2
             left == ResolveLoop(r, lo, mid)
         IN  ResolveLoop(left, mid + 1, hi)

resolve_jumps(bytecode) ==
    ResolveLoop([bytecode |-> bytecode, panic |-> "none"], 0, Len(bytecode) - 1)

\* compile: the bytecode, or a panic ("todo": todo!() on Statement::Read;
\* "expect": no matching jump in resolve_jumps).
compile(stmts) ==
    LET c == CompileLoop(stmts, 1, Len(stmts),
                 [state |-> [kind |-> "Initial", n |-> 0], bytecode |-> <<>>, panic |-> "none"])
    IN  IF c.panic # "none" THEN [tag |-> "Panic", val |-> <<>>, err |-> c.panic]
        ELSE LET r == resolve_jumps(flush_and_reset(c).bytecode) IN
             IF r.panic # "none" THEN [tag |-> "Panic", val |-> <<>>, err |-> r.panic]
             ELSE [tag |-> "Ok", val |-> r.bytecode, err |-> "none"]

---------------------------------------------------------------------------
(* vm.rs: the VM *)

\* memory: [u8; MEMORY_CELLS], held as the function of its nonzero cells
Cell(m, p) == IF p \in DOMAIN m THEN m[p] ELSE 0

SetCell(m, p, v) ==
    IF v = 0 THEN [q \in (DOMAIN m) \ {p} |-> m[q]]
    ELSE [q \in (DOMAIN m) \cup {p} |-> IF q = p THEN v ELSE m[q]]

ZeroMemory == [q \in {} |-> 0]

\* print!("{}", cell as char): the char U+0000..U+00FF written as UTF-8
PrintBytes(c) ==
    IF c <= I8_MAX THEN <<c>> ELSE <<192 + (c \div 64), 128 + (c % 64)>>

\* eval_one with the test of JumpIfNotZero turned round: it jumps on a zero cell
eval_one_NotZeroJumpsOnZero(ip, mp, m, instruction, b) ==
    LET cell == Cell(m, mp)
        n == instruction.n
        ok(mp2, m2, out) ==
            [res |-> "Ok", val |-> ip + 1, err |-> "none",
             mem_ptr |-> mp2, memory |-> m2, out |-> out]
        fail(res, e) ==
            [res |-> res, val |-> -1, err |-> e,
             mem_ptr |-> mp, memory |-> m, out |-> <<>>]
    IN
    CASE instruction.op = "Increment" ->
            IF n < 0 /\ I32Abs(n, b).panic THEN fail("Panic", "overflow")
            ELSE IF n < 0 /\ I32Abs(n, b).v > cell THEN fail("Err", "NegativeRegister")
            ELSE ok(mp, SetCell(m, mp, SaturatingAddSigned(cell, AsI8(n))), <<>>)
      [] instruction.op = "Shift" ->
            IF n <= 0 /\ I32Abs(n, b).panic THEN fail("Panic", "overflow")
            ELSE LET target == IF n > 0 THEN CheckedAddAsUsize(mp, n)
                               ELSE CheckedSubAsUsize(mp, I32Abs(n, b).v)
                 IN  IF target = -1 \/ target >= MEMORY_CELLS
                     THEN fail("Err", "NoMoreCells")
                     ELSE ok(target, m, <<>>)
      [] instruction.op = "Print" -> ok(mp, m, PrintBytes(cell))
      [] instruction.op = "JumpIfZero" /\ cell = 0 ->
            [ok(mp, m, <<>>) EXCEPT !.val = n]
      [] instruction.op = "JumpIfNotZero" /\ cell = 0 ->
            [ok(mp, m, <<>>) EXCEPT !.val = n]
      [] OTHER -> ok(mp, m, <<>>)

\* VM::eval_one on the VM [i_ptr |-> ip, mem_ptr |-> mp, memory |-> m].
\* res is "Ok" (val the next instruction pointer), "Err" (err the
\* RuntimeError) or "Panic"; mem_ptr, memory are the VM's fields afterwards
\* and out the bytes printed.
eval_one(ip, mp, m, instruction, b) ==
    LET cell == Cell(m, mp)
        n == instruction.n
        ok(mp2, m2, out) ==
            [res |-> "Ok", val |-> ip + 1, err |-> "none",
             mem_ptr |-> mp2, memory |-> m2, out |-> out]
        fail(res, e) ==
            [res |-> res, val |-> -1, err |-> e,
             mem_ptr |-> mp, memory |-> m, out |-> <<>>]
    IN
    CASE instruction.op = "Increment" ->
            IF n < 0 /\ I32Abs(n, b).panic THEN fail("Panic", "overflow")
            ELSE IF n < 0 /\ I32Abs(n, b).v > cell THEN fail("Err", "NegativeRegister")
            ELSE ok(mp, SetCell(m, mp, SaturatingAddSigned(cell, AsI8(n))), <<>>)
      [] instruction.op = "Shift" ->
            IF n <= 0 /\ I32Abs(n, b).panic THEN fail("Panic", "overflow")
            ELSE LET target == IF n > 0 THEN CheckedAddAsUsize(mp, n)
                               ELSE CheckedSubAsUsize(mp, I32Abs(n, b).v)
                 IN  IF target = -1 \/ target >= MEMORY_CELLS
                     THEN fail("Err", "NoMoreCells")
                     ELSE ok(target, m, <<>>)
      [] instruction.op = "Print" -> ok(mp, m, PrintBytes(cell))
      [] instruction.op = "JumpIfZero" /\ cell = 0 ->
            [ok(mp, m, <<>>) EXCEPT !.val = n]
      [] instruction.op = "JumpIfNotZero" /\ cell # 0 ->
            [ok(mp, m, <<>>) EXCEPT !.val = n]
      [] OTHER -> ok(mp, m, <<>>)

NoCall == [instr |-> Instruction("None", 0), res |-> "none", val |-> -1, err |-> "none"]

CallRecord(instruction, r) ==
    [instr |-> instruction, res |-> r.res, val |-> r.val, err |-> r.err]

---------------------------------------------------------------------------
(* The program texts *)

Repeat(c, k) == [i \in 1..k |-> c]

SeqsUpTo(S, k) == UNION {[1..n -> S] : n \in 0..k}

\* more `+` in a row than an i8 holds
LongRun == 200
\* more loops nested than a u8 counts
DeepNest == 257

NamedPrograms ==
    { <<"+", "+", "+", ".">>,
      <<"+", "[", "-", "]">>,
      <<"+", "+", "[", ">", "+", "<", "-", "]">>,
      <<"[", "[", "]", "]", "[", "[", "]", "]">>,
      <<"+", "[", "[", "<", "]", "-", "]">>,
      <<">", "+", "+", "+", ".", "<", ",", "[", "-", "x", "x", "]">>,
      <<"+", ">", "<", "+", "-", ">", ">", "<", "-", "+", "+", ".">>,
      Repeat("+", LongRun) \o <<".">>,
      Repeat("+", LongRun) \o Repeat("-", LongRun - 1) \o <<".">>,
      Repeat("[", DeepNest) \o Repeat("]", DeepNest) }

Programs ==
    SeqsUpTo(Chars, MaxLen)
    \cup SeqsUpTo({"[", "]"}, MaxBr)
    \cup SeqsUpTo({"+", "-", ">", "<", "."}, MaxRun)
    \cup NamedPrograms

\* the program texts the repl reads after the first one
LaterPrograms == SeqsUpTo({"+", "."}, MaxLater)

\* the instructions handed to eval_one directly
ApiInstructions ==
    {Instruction("Increment", d) : d \in {I32_MIN, -200, -129, -128, -1, 1, 127, 128, 200, 256}}
    \cup {Instruction("Shift", d) : d \in {I32_MIN, -1, 0, 1, MEMORY_CELLS - 1, MEMORY_CELLS, I32_MAX}}
    \cup {Instruction("Print", 0), Instruction("JumpIfZero", 5), Instruction("JumpIfNotZero", 7)}

---------------------------------------------------------------------------
(* The state machine *)

Init ==
    /\ mode \in {"repl", "api"}
    /\ build \in Builds
    /\ pc = IF mode = "repl" THEN "read" ELSE "api"
    /\ src \in (IF mode = "repl" THEN Programs ELSE {<<>>})
    /\ tokens = <<>>
    /\ parsed = [tag |-> "none", val |-> <<>>, err |-> "none"]
    /\ compiled = [tag |-> "none", val |-> <<>>, err |-> "none"]
    /\ i_ptr = 0
    /\ mem_ptr = 0
    /\ memory = ZeroMemory
    /\ output = <<>>
    /\ last = NoCall
    /\ calls = 0
    /\ reads = IF mode = "repl" THEN 1 ELSE 0
    /\ done_len = -1

\* lib.rs repl: tokenize(&input)
Tokenize ==
    /\ pc = "read"
    /\ tokens' = tokenize(src)
    /\ pc' = "tokenized"
    /\ UNCHANGED <<mode, build, src, parsed, compiled, i_ptr, mem_ptr, memory, output, last, calls, reads, done_len>>

\* lib.rs repl: parse(&tokens); on Err the error is printed and the loop
\* goes on to the next read; a panic ends the process
Parse ==
    /\ pc = "tokenized"
    /\ parsed' = parse(tokens, build)
    /\ pc' = CASE parsed'.tag = "Ok" -> "parsed"
               [] parsed'.tag = "Err" -> "rejected"
               [] OTHER -> "aborted"
    /\ UNCHANGED <<mode, build, src, tokens, compiled, i_ptr, mem_ptr, memory, output, last, calls, reads, done_len>>

\* compile followed by an eval that starts from instruction 0
Compile_ResetsInstructionPointer ==
    /\ pc = "parsed"
    /\ compiled' = compile(parsed.val)
    /\ pc' = IF compiled'.tag = "Ok" THEN "running" ELSE "aborted"
    /\ i_ptr' = 0
    /\ UNCHANGED <<mode, build, src, tokens, parsed, mem_ptr, memory, output, last, calls, reads, done_len>>

\* lib.rs repl: compile(&parsed)
Compile ==
    /\ pc = "parsed"
    /\ compiled' = compile(parsed.val)
    /\ pc' = IF compiled'.tag = "Ok" THEN "running" ELSE "aborted"
    /\ UNCHANGED <<mode, build, src, tokens, parsed, i_ptr, mem_ptr, memory, output, last, calls, reads, done_len>>

\* VM::eval: one iteration of `while let Some(instruction) = expr.get(self.i_ptr)`
EvalStep ==
    /\ pc = "running"
    /\ i_ptr < Len(compiled.val)
    /\ LET instruction == compiled.val[i_ptr + 1]
           r == eval_one(i_ptr, mem_ptr, memory, instruction, build)
       IN  /\ Len(output) + Len(r.out) <= MaxOut
           /\ last' = CallRecord(instruction, r)
           /\ mem_ptr' = r.mem_ptr
           /\ memory' = r.memory
           /\ output' = output \o r.out
           /\ i_ptr' = IF r.res = "Ok" THEN r.val ELSE i_ptr
           /\ pc' = IF r.res = "Ok" THEN "running" ELSE "aborted"
    /\ UNCHANGED <<mode, build, src, tokens, parsed, compiled, calls, reads, done_len>>

\* VM::eval: expr.get(self.i_ptr) is None, eval returns
EvalReturn ==
    /\ pc = "running"
    /\ i_ptr >= Len(compiled.val)
    /\ pc' = "halted"
    /\ done_len' = Len(compiled.val)
    /\ UNCHANGED <<mode, build, src, tokens, parsed, compiled,
                   i_ptr, mem_ptr, memory, output, last, calls, reads>>

\* lib.rs repl: the loop comes round after eval returned or after a parse
\* error was printed, and read() gives the next program; tokens, the parse
\* result and the bytecode are locals of one iteration, `machine` is not
NextProgram ==
    /\ pc \in {"halted", "rejected"}
    /\ reads < MaxPrograms
    /\ src' \in LaterPrograms
    /\ reads' = reads + 1
    /\ tokens' = <<>>
    /\ parsed' = [tag |-> "none", val |-> <<>>, err |-> "none"]
    /\ compiled' = [tag |-> "none", val |-> <<>>, err |-> "none"]
    /\ last' = NoCall
    /\ pc' = "read"
    /\ UNCHANGED <<mode, build, i_ptr, mem_ptr, memory, output, calls, done_len>>

\* lib.rs repl: read() gives None, the loop breaks
ReplExit ==
    /\ pc \in {"halted", "rejected"}
    /\ pc' = "exited"
    /\ UNCHANGED <<mode, build, src, tokens, parsed, compiled,
                   i_ptr, mem_ptr, memory, output, last, calls, reads, done_len>>

\* a direct call vm.eval_one(&instruction), as the tests of vm.rs make
DirectEvalOne ==
    /\ pc = "api"
    /\ calls < MaxCalls
    /\ \E instruction \in ApiInstructions :
          LET r == eval_one(i_ptr, mem_ptr, memory, instruction, build) IN
          /\ last' = CallRecord(instruction, r)
          /\ mem_ptr' = r.mem_ptr
          /\ memory' = r.memory
          /\ output' = output \o r.out
          /\ pc' = IF r.res = "Panic" THEN "aborted" ELSE "api"
    /\ calls' = calls + 1
    /\ UNCHANGED <<mode, build, src, tokens, parsed, compiled, i_ptr, reads, done_len>>

Next ==
    \/ Tokenize
    \/ Parse
    \/ Compile
    \/ EvalStep
    \/ EvalReturn
    \/ NextProgram
    \/ ReplExit
    \/ DirectEvalOne

Spec == Init /\ [][Next]_vars

---------------------------------------------------------------------------
(* Bracket structure of a program, counted in unbounded integers *)

IsOpen(x) == x \in {"LeftBracket", "JumpIfZero"}
IsClose(x) == x \in {"RightBracket", "JumpIfNotZero"}

\* kinds[k] is the k-th token, or the kind of the k-th statement; the result
\* maps k to the number of loops open after the first k of them
TrueDepths(kinds) ==
    [k \in 0..Len(kinds) |->
        Cardinality({x \in 1..k : IsOpen(kinds[x])})
        - Cardinality({x \in 1..k : IsClose(kinds[x])})]

WellBracketed(kinds) ==
    LET D == TrueDepths(kinds) IN
    /\ \A k \in 0..Len(kinds) : D[k] >= 0
    /\ D[Len(kinds)] = 0

\* the most loops open at once
MaxNesting(kinds) ==
    LET D == TrueDepths(kinds) IN
    CHOOSE d \in {D[k] : k \in 0..Len(kinds)} : \A k \in 0..Len(kinds) : D[k] <= d

\* the state right after parse has returned, failed or panicked
AfterParse ==
    \/ pc \in {"parsed", "rejected"}
    \/ pc = "aborted" /\ parsed.tag = "Panic"

\* the state right after compile has returned or panicked
AfterCompile ==
    \/ pc = "running" /\ last = NoCall
    \/ pc = "aborted" /\ compiled.tag = "Panic"

---------------------------------------------------------------------------
(* C1 *)

\* C1: whenever the brackets of the symbol sequence are not balanced (an
\* open left unmatched, or a close met at depth 0), parse returns
\* Err(UnbalancedBrackets): it does not return Ok and does not abort.
C1_UnbalancedIsRejected ==
    (AfterParse /\ ~WellBracketed(tokens))
        => (parsed.tag = "Err" /\ parsed.err = "UnbalancedBrackets")

---------------------------------------------------------------------------
(* C2 *)

StatementKindOf(token) ==
    CASE token = "MovePointerLeft"  -> "ShiftLeft"
      [] token = "MovePointerRight" -> "ShiftRight"
      [] token = "LeftBracket"      -> "JumpIfZero"
      [] token = "RightBracket"     -> "JumpIfNotZero"
      [] OTHER -> token

\* one statement per symbol, in order; an open carries the number of loops
\* open before it, a close the number left open after it
ParsedAsSpecified ==
    LET D == TrueDepths(tokens) IN
    /\ parsed.tag = "Ok"
    /\ Len(parsed.val) = Len(tokens)
    /\ \A k \in 1..Len(tokens) :
          /\ parsed.val[k].kind = StatementKindOf(tokens[k])
          /\ parsed.val[k].n =
                CASE tokens[k] = "LeftBracket"  -> D[k - 1]
                  [] tokens[k] = "RightBracket" -> D[k]
                  [] OTHER -> 0

\* C2: for every well-bracketed symbol sequence parse returns Ok with one
\* statement per symbol in order, each open tagged with the number of loops
\* open before it and each close with the number open after it (so a close
\* carries the tag of its matching open).
C2_WellBracketedParses ==
    (AfterParse /\ WellBracketed(tokens)) => ParsedAsSpecified

\* What holds of C2: the same for the programs that nest at most 255 loops,
\* the range of the u8 depth counter, in both builds.
C2_HoldsUpToU8Nesting ==
    (AfterParse /\ WellBracketed(tokens) /\ MaxNesting(tokens) <= U8_MAX)
        => ParsedAsSpecified

---------------------------------------------------------------------------
(* C3 *)

IsJump(instruction) == instruction.op \in {"JumpIfZero", "JumpIfNotZero"}

\* the positions (1-based) of the jumps of a statement or instruction sequence
JumpPositions(s, isJump(_)) ==
    SelectSeq([k \in 1..Len(s) |-> k], LAMBDA k : isJump(s[k]))

\* position of the close that matches the open at position a of kinds
TrueMatch(kinds, a) ==
    LET D == TrueDepths(kinds)
        later == {m \in (a + 1)..Len(kinds) : IsClose(kinds[m]) /\ D[m] = D[a - 1]}
    IN  CHOOSE m \in later : \A m2 \in later : m <= m2

JumpsSymmetric(stmts, bytecode) ==
    LET kinds == [k \in 1..Len(stmts) |-> stmts[k].kind]
        SJ == JumpPositions(stmts, LAMBDA x : IsOpen(x.kind) \/ IsClose(x.kind))
        BJ == JumpPositions(bytecode, IsJump)
    IN  /\ Len(SJ) = Len(BJ)
        /\ \A q \in 1..Len(BJ) :
              LET i == BJ[q] - 1
                  j == bytecode[i + 1].n
              IN  bytecode[i + 1].op = "JumpIfZero" =>
                    /\ i < j
                    /\ j < Len(bytecode)
                    /\ bytecode[j + 1] = Instruction("JumpIfNotZero", i)
                    /\ \E r \in 1..Len(BJ) :
                          BJ[r] = j + 1 /\ SJ[r] = TrueMatch(kinds, SJ[q])

\* C3: in the stream compile returns for a successfully parsed program,
\* every JumpIfZero at index i has a target j > i, the instruction at j is
\* JumpIfNotZero(i), and the two are a bracket pair of the source.
C3_JumpSymmetry ==
    (AfterCompile /\ parsed.tag = "Ok" /\ compiled.tag = "Ok")
        => JumpsSymmetric(parsed.val, compiled.val)
\* What holds of C3: the same for the programs that nest at most 255 loops.
C3_HoldsUpToU8Nesting ==
    (AfterCompile /\ parsed.tag = "Ok" /\ compiled.tag = "Ok"
        /\ WellBracketed(tokens) /\ MaxNesting(tokens) <= U8_MAX)
        => JumpsSymmetric(parsed.val, compiled.val)

---------------------------------------------------------------------------
(* C4 *)

ClassOf(s) ==
    CASE s.kind \in {"Increment", "Decrement"}   -> "Increment"
      [] s.kind \in {"ShiftRight", "ShiftLeft"} -> "Shift"
      [] OTHER -> "Other"

\* a maximal run starts at k: statement k is no arithmetic or movement
\* statement, or it is the first, or the one before is of another class
RunStartsAt(stmts, k) ==
    \/ k = 1
    \/ ClassOf(stmts[k]) = "Other"
    \/ ClassOf(stmts[k - 1]) # ClassOf(stmts[k])

\* last statement of the maximal run that starts at k
RunEnd(stmts, k) ==
    LET ends == {e \in k..Len(stmts) : e = Len(stmts) \/ RunStartsAt(stmts, e + 1)}
    IN  CHOOSE e \in ends : \A e2 \in ends : e <= e2

\* (number of Increment or ShiftRight) - (number of Decrement or ShiftLeft)
NetDelta(stmts, k, e) ==
    Cardinality({x \in k..e : stmts[x].kind \in {"Increment", "ShiftRight"}})
    - Cardinality({x \in k..e : stmts[x].kind \in {"Decrement", "ShiftLeft"}})

\* what the statement at k stands for in the folded stream (jump targets
\* left out): the whole run if a run starts at k, nothing otherwise
FoldedAt(stmts, k) ==
    IF ~RunStartsAt(stmts, k) THEN <<>>
    ELSE IF ClassOf(stmts[k]) = "Other" THEN <<Instruction(stmts[k].kind, 0)>>
    ELSE LET d == NetDelta(stmts, k, RunEnd(stmts, k)) IN
         IF d = 0 THEN <<>> ELSE <<Instruction(ClassOf(stmts[k]), d)>>

RECURSIVE FoldedRange(_, _, _)
FoldedRange(stmts, lo, hi) ==
    IF lo > hi THEN <<>>
    ELSE IF lo = hi THEN FoldedAt(stmts, lo)
    ELSE LET mid == (lo + hi) \div 2 IN
         FoldedRange(stmts, lo, mid) \o FoldedRange(stmts, mid + 1, hi)

WithoutTargets(bytecode) ==
    [k \in 1..Len(bytecode) |->
        IF IsJump(bytecode[k]) THEN Instruction(bytecode[k].op, 0) ELSE bytecode[k]]

\* C4: the stream compile returns is the statement sequence with every
\* maximal run of Increment/Decrement replaced by one Increment of its net
\* delta, every maximal run of ShiftRight/ShiftLeft by one Shift of its net
\* delta, runs of net delta zero dropped, and Print and the loop statements
\* kept one for one; so no Increment or Shift of the stream has delta 0.
C4_RunLengthFolding ==
    (AfterCompile /\ compiled.tag = "Ok") =>
        /\ WithoutTargets(compiled.val) = FoldedRange(parsed.val, 1, Len(parsed.val))
        /\ \A k \in 1..Len(compiled.val) :
              compiled.val[k].op \in {"Increment", "Shift"} => compiled.val[k].n # 0

\* a compiled program with a run that nets to zero, a run of several
\* statements that nets to a negative delta, and a run cut by a Print
C4_Witness ==
    /\ AfterCompile /\ compiled.tag = "Ok"
    /\ \E k \in 1..Len(parsed.val) :
          /\ RunStartsAt(parsed.val, k) /\ ClassOf(parsed.val[k]) # "Other"
          /\ RunEnd(parsed.val, k) > k
          /\ NetDelta(parsed.val, k, RunEnd(parsed.val, k)) = 0
    /\ \E k \in 1..Len(parsed.val) :
          /\ RunStartsAt(parsed.val, k) /\ ClassOf(parsed.val[k]) = "Shift"
          /\ RunEnd(parsed.val, k) > k
          /\ NetDelta(parsed.val, k, RunEnd(parsed.val, k)) = 1
    /\ \E k \in 1..Len(compiled.val) : compiled.val[k].op = "Print"
    /\ \E k \in 1..Len(compiled.val) : compiled.val[k] = Instruction("Increment", 1)
    /\ Len(compiled.val) < Len(parsed.val)

---------------------------------------------------------------------------
(* Steps that call eval_one *)

\* the step from this state, if there is one, is a call of eval_one; the
\* instruction and the result are in last'
EvalOneCalled ==
    \/ pc = "api"
    \/ pc = "running" /\ i_ptr < Len(compiled.val)

OtherCellsUnchanged ==
    \A q \in ((DOMAIN memory) \cup (DOMAIN memory')) \ {mem_ptr} :
        Cell(memory', q) = Cell(memory, q)

---------------------------------------------------------------------------
(* C5 *)

\* a call eval_one(Increment(d)) with d in deltas and c + d >= 0 does as C5 says
IncrementSaturatesStep(deltas) ==
    (EvalOneCalled /\ last'.instr.op = "Increment"
        /\ last'.instr.n \in deltas
        /\ Cell(memory, mem_ptr) + last'.instr.n >= 0)
    => LET sum == Cell(memory, mem_ptr) + last'.instr.n IN
       /\ last'.res = "Ok"
       /\ last'.val = i_ptr + 1
       /\ Cell(memory', mem_ptr) = (IF sum > 255 THEN 255 ELSE sum)
       /\ OtherCellsUnchanged
       /\ mem_ptr' = mem_ptr

\* C5: eval_one(Increment(d)) on a cell c with c + d >= 0 succeeds, sets
\* the cell to min(255, c + d), leaves the other cells and the cell pointer
\* unchanged and returns i_ptr + 1, for every i32 delta d.
C5_IncrementSaturates == [][IncrementSaturatesStep(I32_MIN..I32_MAX)]_vars

\* What holds of C5: the same for the deltas an i8 holds.
C5_HoldsWithinI8 == [][IncrementSaturatesStep((-I8_MAX - 1)..I8_MAX)]_vars

---------------------------------------------------------------------------
(* C6 *)

\* a call eval_one(Increment(d)) with d in deltas, d < 0 and |d| > c does as C6 says
NegativeRegisterStep(deltas) ==
    (EvalOneCalled /\ last'.instr.op = "Increment"
        /\ last'.instr.n \in deltas
        /\ last'.instr.n < 0
        /\ Cell(memory, mem_ptr) + last'.instr.n < 0)
    => /\ last'.res = "Err"
       /\ last'.err = "NegativeRegister"
       /\ memory' = memory
       /\ mem_ptr' = mem_ptr
       /\ i_ptr' = i_ptr

\* C6: eval_one(Increment(d)) with d < 0 and |d| > c returns
\* Err(NegativeRegister) and leaves the tape, the cell pointer and the
\* instruction pointer unchanged.
C6_NegativeRegister == [][NegativeRegisterStep(I32_MIN..I32_MAX)]_vars

\* What holds of C6: the same for every delta but i32::MIN.
C6_HoldsAboveI32Min == [][NegativeRegisterStep((I32_MIN + 1)..I32_MAX)]_vars

---------------------------------------------------------------------------
(* C7 *)

\* p + d lies in 0 .. MEMORY_CELLS - 1
ShiftInBounds(p, d) == d >= -p /\ d <= (MEMORY_CELLS - 1) - p

\* a call eval_one(Shift(d)) with d in deltas does as C7 says
ShiftCheckedStep(deltas) ==
    (EvalOneCalled /\ last'.instr.op = "Shift" /\ last'.instr.n \in deltas)
    => IF ShiftInBounds(mem_ptr, last'.instr.n)
       THEN /\ last'.res = "Ok"
            /\ last'.val = i_ptr + 1
            /\ mem_ptr' = mem_ptr + last'.instr.n
            /\ memory' = memory
       ELSE /\ last'.res = "Err"
            /\ last'.err = "NoMoreCells"
            /\ mem_ptr' = mem_ptr
            /\ memory' = memory
            /\ i_ptr' = i_ptr

\* C7: eval_one(Shift(d)) at cell pointer p returns Err(NoMoreCells) and
\* changes nothing when p + d is outside [0, 29999]; otherwise it sets the
\* cell pointer to p + d, leaves the tape unchanged and returns i_ptr + 1.
C7_ShiftChecked == [][ShiftCheckedStep(I32_MIN..I32_MAX)]_vars

\* What holds of C7: the same for every delta but i32::MIN.
C7_HoldsAboveI32Min == [][ShiftCheckedStep((I32_MIN + 1)..I32_MAX)]_vars

---------------------------------------------------------------------------
(* C8 *)

\* C8: when a step of the run loop fails with NegativeRegister or
\* NoMoreCells, eval hands the error back to its caller: the process is not
\* aborted.
C8_RuntimeErrorReturned ==
    (mode = "repl" /\ last.res = "Err") => pc # "aborted"

---------------------------------------------------------------------------
(* C9 *)

CountOf(s, test(_)) == Cardinality({k \in 1..Len(s) : test(s[k])})

\* C9: compile returns a stream for every sequence parse returned,
\* sequences with Read included, with one Print instruction per Print
\* statement and one input instruction per Read statement.
C9_CompileLowersOutputAndInput ==
    (AfterCompile /\ parsed.tag = "Ok") =>
        /\ compiled.tag = "Ok"
        /\ CountOf(compiled.val, LAMBDA x : x.op = "Print")
              = CountOf(parsed.val, LAMBDA x : x.kind = "Print")
        /\ CountOf(compiled.val, LAMBDA x : x.op = "Read")
              = CountOf(parsed.val, LAMBDA x : x.kind = "Read")

---------------------------------------------------------------------------
(* C10 *)

\* most steps of the unfolded run, as a power of two
RefStepsLog2 == 12

\* each statement as an instruction of its own
UnfoldedInstruction(s) ==
    CASE s.kind = "Increment"  -> Instruction("Increment", 1)
      [] s.kind = "Decrement"  -> Instruction("Increment", -1)
      [] s.kind = "ShiftRight" -> Instruction("Shift", 1)
      [] s.kind = "ShiftLeft"  -> Instruction("Shift", -1)
      [] OTHER -> Instruction(s.kind, s.n)

\* the unfolded stream, its jumps resolved as compile resolves them
Unfolded(stmts) ==
    resolve_jumps([k \in 1..Len(stmts) |-> UnfoldedInstruction(stmts[k])]).bytecode

\* a run of eval on a fresh executor: x = [status, i_ptr, mem_ptr, memory, output]
RefInit ==
    [status |-> "running", i_ptr |-> 0, mem_ptr |-> 0, memory |-> ZeroMemory, output |-> <<>>]

RefStep(bytecode, x, b) ==
    IF x.status # "running" THEN x
    ELSE IF x.i_ptr >= Len(bytecode) THEN [x EXCEPT !.status = "Ok"]
    ELSE LET r == eval_one(x.i_ptr, x.mem_ptr, x.memory, bytecode[x.i_ptr + 1], b) IN
         IF r.res = "Ok"
         THEN [status |-> "running", i_ptr |-> r.val, mem_ptr |-> r.mem_ptr,
               memory |-> r.memory, output |-> x.output \o r.out]
         ELSE [x EXCEPT !.status = r.err]

\* 2^k steps
RECURSIVE RefRun(_, _, _, _)
RefRun(bytecode, x, k, b) ==
    IF x.status # "running" THEN x
    ELSE IF k = 0 THEN RefStep(bytecode, x, b)
    ELSE RefRun(bytecode, RefRun(bytecode, x, k - 1, b), k - 1, b)

\* eval has ended: it returned, or a step failed
EvalEnded ==
    \/ pc = "halted"
    \/ pc = "aborted" /\ last.res \in {"Err", "Panic"}

EvalOutcome ==
    [status |-> IF pc = "halted" THEN "Ok" ELSE last.err,
     mem_ptr |-> mem_ptr, memory |-> memory, output |-> output]

\* C10: for a well-bracketed program without Input, the run of the compiled
\* stream on a fresh executor ends as the run of the unfolded stream does:
\* same success or error, same tape, same cell pointer, same output.
C10_FoldingPreservesSemantics ==
    (mode = "repl" /\ reads = 1 /\ EvalEnded /\ WellBracketed(tokens)
        /\ \A k \in 1..Len(tokens) : tokens[k] # "Read")
    => LET x == RefRun(Unfolded(parsed.val), RefInit, RefStepsLog2, build) IN
       x.status # "running" =>
          EvalOutcome = [status |-> x.status, mem_ptr |-> x.mem_ptr,
                         memory |-> x.memory, output |-> x.output]

---------------------------------------------------------------------------
(* C11 *)

\* a call eval_one(Print) on a cell whose value is in values does as C11 says
OutputOneByteStep(values) ==
    (EvalOneCalled /\ last'.instr.op = "Print" /\ Cell(memory, mem_ptr) \in values)
    => /\ last'.res = "Ok"
       /\ last'.val = i_ptr + 1
       /\ output' = Append(output, Cell(memory, mem_ptr))
       /\ memory' = memory
       /\ mem_ptr' = mem_ptr

\* C11: executing Print on a cell holding c, 0 <= c <= 255, appends exactly
\* one byte, equal to c, to the output, leaves the tape and the cell pointer
\* unchanged and advances the instruction pointer by one.
C11_OutputOneByte == [][OutputOneByteStep(0..U8_MAX)]_vars

\* What holds of C11: the same for the cell values up to 127, the chars
\* that UTF-8 writes as one byte.
C11_HoldsUpTo127 == [][OutputOneByteStep(0..I8_MAX)]_vars

\* What holds of C11: program `+++.` writes the one byte 3.
C11_ThreePlusDot ==
    (reads = 1 /\ src = <<"+", "+", "+", ".">> /\ pc = "halted") => output = <<3>>

---------------------------------------------------------------------------
(* Runs to completion *)

MoveLoop == <<"+", "+", "[", ">", "+", "<", "-", "]">>
ClearLoop == <<"+", "[", "-", "]">>

\* the repl reads one of the two programs whose runs are followed to the end
ScenarioInit == Init /\ (mode = "repl" => src \in {MoveLoop, ClearLoop})

\* WF_vars(Compile) written out: Compile can be taken exactly when pc = "parsed"
CompileFair == []<>(pc # "parsed") \/ []<><<Compile>>_vars

\* the process is sequential and is never suspended for ever: a step of the
\* pipeline that can be taken is taken; reading the next program waits for
\* input and may never happen
ScenarioSpec ==
    /\ ScenarioInit /\ [][Next]_vars
    /\ WF_vars(Tokenize \/ Parse \/ EvalStep \/ EvalReturn)
    /\ CompileFair

\* the first program the repl reads is text, and nothing of it has run yet
Starts(text) == mode = "repl" /\ reads = 1 /\ src = text /\ pc = "read"

\* eval has returned from the run of the first program text
Halted(text) ==
    /\ mode = "repl" /\ reads = 1 /\ src = text
    /\ pc = "halted" /\ i_ptr = Len(compiled.val)

---------------------------------------------------------------------------
(* C12 *)

\* C12: the run of `++[>+<-]` on a fresh executor terminates, with the
\* starting cell 0, the next cell 2 and every other cell 0.
C12_MoveLoopTerminates ==
    Starts(MoveLoop) ~>
        (/\ Halted(MoveLoop)
         /\ Cell(memory, 0) = 0 /\ Cell(memory, 1) = 2
         /\ \A q \in DOMAIN memory : q = 1)

\* the loop has gone round once: JumpIfNotZero has jumped back with one
\* unit moved and one left
C12_Witness ==
    /\ mode = "repl" /\ reads = 1 /\ src = MoveLoop /\ pc = "running"
    /\ last.instr.op = "JumpIfNotZero" /\ last.val = i_ptr /\ i_ptr < Len(compiled.val)
    /\ Cell(memory, 0) = 1 /\ Cell(memory, 1) = 1

---------------------------------------------------------------------------
(* C13 *)

\* C13: the run of the stream compiled from `+[-]` on a fresh executor
\* eventually halts, the instruction pointer at the length of the stream and
\* no error reported, with the starting cell 0.
C13_ClearLoopHalts ==
    Starts(ClearLoop) ~>
        (Halted(ClearLoop) /\ last.res = "Ok" /\ Cell(memory, 0) = 0)

\* eval has returned from `+[-]` after JumpIfNotZero fell through
C13_Witness ==
    /\ Halted(ClearLoop) /\ Len(compiled.val) = 4
    /\ last.instr.op = "JumpIfNotZero" /\ last.val = 4
    /\ memory = ZeroMemory

---------------------------------------------------------------------------
(* C14 *)

\* the eight recognized characters and the symbol of each
SymbolOf ==
    [c \in {"<", ">", "+", "-", ".", ",", "[", "]"} |->
        IF c = "<" THEN "MovePointerLeft"
        ELSE IF c = ">" THEN "MovePointerRight"
        ELSE IF c = "+" THEN "Increment"
        ELSE IF c = "-" THEN "Decrement"
        ELSE IF c = "." THEN "Print"
        ELSE IF c = "," THEN "Read"
        ELSE IF c = "[" THEN "LeftBracket"
        ELSE "RightBracket"]

\* the positions of s that hold a recognized character
Kept(s) == {k \in 1..Len(s) : s[k] \in DOMAIN SymbolOf}

\* t is the subsequence of the recognized characters of s, each mapped to
\* its symbol, in the order of s
IsSymbolSubsequence(s, t) ==
    /\ Len(t) = Cardinality(Kept(s))
    /\ \A k \in Kept(s) :
          t[Cardinality({j \in Kept(s) : j <= k})] = SymbolOf[s[k]]

\* C14: tokenize returns exactly the subsequence of the eight recognized
\* characters of its input, each mapped to its symbol, in the original
\* order; other characters give nothing, so the result is no longer than
\* the input, and tokenize always returns.
C14_TokenizeFilters ==
    [][(mode = "repl" /\ pc = "read") =>
          /\ pc' = "tokenized"
          /\ IsSymbolSubsequence(src, tokens')
          /\ Len(tokens') <= Len(src)]_vars

\* a text with unrecognized characters between recognized ones has been
\* tokenized: `>+++.<,[-xx]`
C14_Witness ==
    /\ mode = "repl" /\ pc = "tokenized"
    /\ tokens = <<"MovePointerRight", "Increment", "Increment", "Increment", "Print",
                  "MovePointerLeft", "Read", "LeftBracket", "Decrement", "RightBracket">>
    /\ Len(src) = Len(tokens) + 2

---------------------------------------------------------------------------
(* C15 *)

\* the latest eval_one call was a bracket that jumped, and the run of eval
\* now stands on the instruction it jumped to
LandedByJump ==
    /\ mode = "repl" /\ pc = "running"
    /\ IsJump(last.instr) /\ last.res = "Ok"
    /\ i_ptr = last.instr.n
    /\ (last.instr.op = "JumpIfZero") = (Cell(memory, mem_ptr) = 0)

\* a call eval_one of a bracket instruction does as C15 says
BracketStep ==
    (EvalOneCalled /\ IsJump(last'.instr)) =>
        /\ last'.res = "Ok"
        /\ last'.val =
              IF (last'.instr.op = "JumpIfZero") = (Cell(memory, mem_ptr) = 0)
              THEN last'.instr.n ELSE i_ptr + 1
        /\ memory' = memory
        /\ mem_ptr' = mem_ptr

\* after a landing the run executes the partner bracket, which falls through
FallthroughAfterLanding ==
    LandedByJump =>
        /\ i_ptr < Len(compiled.val)
        /\ compiled.val[i_ptr + 1].op \in {"JumpIfZero", "JumpIfNotZero"} \ {last.instr.op}
        /\ pc' = "running"
        /\ i_ptr' = i_ptr + 1

\* C15: JumpIfZero(t) sets the instruction pointer to t exactly when the
\* current cell is 0, JumpIfNotZero(t) exactly when it is not; otherwise
\* each advances it by one; neither changes the tape or the cell pointer.
\* In the run of a resolved stream, the step after a bracket has jumped
\* executes the partner bracket and falls through to the instruction after
\* it.
C15_BracketDoubleDuty == [][BracketStep /\ FallthroughAfterLanding]_vars

\* in the run of `++[>+<-]` JumpIfNotZero has jumped back onto JumpIfZero,
\* which has fallen through into the loop body
C15_Witness ==
    /\ mode = "repl" /\ pc = "running" /\ src = MoveLoop
    /\ last.instr.op = "JumpIfZero" /\ last.val = 2 /\ i_ptr = 2
    /\ Cell(memory, 0) = 1 /\ Cell(memory, 1) = 1

---------------------------------------------------------------------------
(* C16 *)

\* C16: in every state reached from a fresh executor by eval_one steps,
\* successful or failed, the cell pointer is within 0..29999 and every
\* cell of the tape within 0..255; no cell outside the tape is ever held.
C16_TapeBounds ==
    /\ mem_ptr \in 0..(MEMORY_CELLS - 1)
    /\ \A q \in DOMAIN memory :
          q \in 0..(MEMORY_CELLS - 1) /\ memory[q] \in 0..U8_MAX

\* three direct calls Increment(127): the third is clamped at 255
C16_Witness ==
    /\ mode = "api" /\ calls = 3
    /\ last.instr = Instruction("Increment", I8_MAX) /\ last.res = "Ok"
    /\ Cell(memory, mem_ptr) = U8_MAX

\* the cell pointer stands on the last cell and a shift past it has failed
C16_AtLastCell ==
    /\ mode = "api" /\ mem_ptr = MEMORY_CELLS - 1
    /\ last.instr.op = "Shift" /\ last.err = "NoMoreCells"

---------------------------------------------------------------------------
(* C17 *)

\* eval is running, or has just returned from, the stream compiled from the
\* first program text, on the executor as VM::default made it
FreshEval == mode = "repl" /\ reads = 1 /\ pc \in {"running", "halted"}

\* a step of eval moves i_ptr as C17 says and keeps it inside 0..length
InstructionPointerStep ==
    /\ i_ptr' \in 0..Len(compiled.val)
    /\ i_ptr' # i_ptr =>
          \/ i_ptr' = i_ptr + 1
          \/ IsJump(last'.instr) /\ last'.instr = compiled.val[i_ptr + 1]
                /\ i_ptr' = last'.instr.n
    /\ pc' = "halted" => i_ptr' = Len(compiled.val)

\* C17: while eval runs on a fresh executor the stream compiled from a
\* well-bracketed program, 0 <= i_ptr <= the length of the stream, every
\* step changes i_ptr to i_ptr + 1 or to the target of the bracket it
\* executed, and eval returns only with i_ptr = the length of the stream.
C17_InstructionPointer ==
    [][(FreshEval /\ pc = "running")
          => (InstructionPointerStep \/ ~WellBracketed(tokens))]_vars

\* eval has returned from the run of `[[]][[]]`, whose brackets jumped
C17_Witness ==
    /\ FreshEval /\ pc = "halted"
    /\ src = <<"[", "[", "]", "]", "[", "[", "]", "]">>
    /\ i_ptr = 8 /\ last.instr = Instruction("JumpIfNotZero", 4)

---------------------------------------------------------------------------
(* C18 *)

\* two neighbours of the stream are both Increment or both Shift
AdjacentSameClass(bytecode) ==
    \E k \in 1..(Len(bytecode) - 1) :
        /\ bytecode[k].op \in {"Increment", "Shift"}
        /\ bytecode[k + 1].op = bytecode[k].op

\* the starts of the maximal runs of arithmetic or movement statements
\* whose net delta is not zero
LiveRunStarts(stmts) ==
    {k \in 1..Len(stmts) :
        /\ ClassOf(stmts[k]) # "Other" /\ RunStartsAt(stmts, k)
        /\ NetDelta(stmts, k, RunEnd(stmts, k)) # 0}

\* two runs of one class, both with a net delta, with nothing between them
\* but runs whose net delta is zero
SplitByZeroNetRuns(stmts) ==
    \E a \in LiveRunStarts(stmts) : \E b \in LiveRunStarts(stmts) :
        /\ a < b
        /\ ClassOf(stmts[a]) = ClassOf(stmts[b])
        /\ \A k \in (a + 1)..(b - 1) :
              /\ ClassOf(stmts[k]) # "Other"
              /\ k \notin LiveRunStarts(stmts)

\* C18 as stated: the stream compile returns never holds two adjacent
\* Increment nor two adjacent Shift, whatever the statement sequence, also
\* when a zero-net run of the other class lies between two runs.
C18_FullyCoalesced ==
    (AfterCompile /\ compiled.tag = "Ok") => ~AdjacentSameClass(compiled.val)

\* C18 amended: the stream compile returns holds two adjacent Increment or
\* two adjacent Shift exactly when the statement sequence has two runs of
\* one class, each with a net delta, separated only by zero-net runs; a
\* zero-net run between two runs is dropped and the two are not merged.
C18_CoalescedUpToZeroNetRuns ==
    (AfterCompile /\ compiled.tag = "Ok") =>
        (AdjacentSameClass(compiled.val) <=> SplitByZeroNetRuns(parsed.val))

\* statements Increment, ShiftRight, ShiftLeft, Increment have been compiled
\* to Increment(1), Increment(1)
C18_Witness ==
    /\ AfterCompile /\ compiled.tag = "Ok"
    /\ parsed.val = <<Statement("Increment", 0), Statement("ShiftRight", 0),
                      Statement("ShiftLeft", 0), Statement("Increment", 0)>>
    /\ compiled.val = <<Instruction("Increment", 1), Instruction("Increment", 1)>>

---------------------------------------------------------------------------
(* C19 *)

\* eval is about to start on a VM on which an earlier eval has returned
LaterEvalStarts ==
    /\ mode = "repl" /\ pc = "running" /\ last = NoCall
    /\ reads > 1 /\ done_len >= 0

\* the stream is no longer than the one the latest eval returned from:
\* eval returns at once, no instruction executed, the VM as it was
LaterEvalIdle ==
    (LaterEvalStarts /\ Len(compiled.val) <= done_len) =>
        /\ pc' = "halted"
        /\ last' = NoCall
        /\ UNCHANGED <<i_ptr, mem_ptr, memory, output>>

\* a longer stream is entered where the VM stands, not at its first instruction
LaterEvalResumes ==
    (LaterEvalStarts /\ i_ptr < Len(compiled.val)) =>
        /\ i_ptr >= done_len
        /\ last'.instr = compiled.val[i_ptr + 1]

\* C19: eval does not reset the executor.  After an eval that returned
\* normally on a stream of length n, an eval on the same VM of a stream of
\* length <= n executes no instruction and leaves the tape, the cell pointer
\* and the instruction pointer as they were; a longer stream is run from
\* where the instruction pointer stands, so only a fresh executor runs a
\* program from its first instruction.
C19_EvalKeepsTheExecutor == [][LaterEvalIdle /\ LaterEvalResumes]_vars

\* the second eval has returned from a stream that is not empty and is
\* shorter than the first, and has executed nothing: the tape still
\* holds what the first program left
C19_Witness ==
    /\ mode = "repl" /\ reads = 2 /\ pc = "halted" /\ last = NoCall
    /\ Len(compiled.val) >= 1 /\ i_ptr > Len(compiled.val)
    /\ done_len = Len(compiled.val)
    /\ memory # ZeroMemory /\ output = <<>>

\* the second eval has run the tail of its stream: after `+`, the text `+.`
\* has printed the cell without incrementing it
C19_ResumedInTheMiddle ==
    /\ mode = "repl" /\ reads = 2 /\ pc = "halted"
    /\ src = <<"+", ".">> /\ memory = (0 :> 1) /\ output = <<1>>

===========================================================================
